---- MODULE Spec2Model ----
(***************************************************************************)
(* Model of the wiki helper of the SDLC agent system:                      *)
(*   ConfluenceHelper._markdown_to_html  (the Markdown-to-markup converter)*)
(*   ConfluenceHelper.append_to_page / update_page                         *)
(*                                                                         *)
(* Strings are sequences of tokens.  A token is either one character of    *)
(* the input ("#", " ", "\n", "*", "-", Tick, a letter) or one whole tag   *)
(* inserted by the converter ("<h3>", "</p>", ...).  No tag contains a     *)
(* character that any pattern of the converter matches ("#", " ", "\n",    *)
(* "*", "-", Tick), so matching on tokens equals matching on characters.   *)
(* Tick is the backtick character.                                         *)
(***************************************************************************)
EXTENDS Integers, Sequences, FiniteSets, TLC

VARIABLES
    content,     \* _markdown_to_html: its argument
    html,        \* _markdown_to_html: the local html
    pc,          \* _markdown_to_html: the statement to run next
    store,       \* the wiki: the page's storage value, version and title
    apc,         \* append_to_page: where each caller is
    additional,  \* append_to_page: each caller's additional_content
    page,        \* append_to_page: the page each caller fetched
    requests,    \* the update requests the wiki has received, in order
    tokens_used, \* ClaudeHelper: self.tokens_used
    usage,       \* the usage of the latest response of the model service
    prev_tokens, \* self.tokens_used before the latest generate_response
    cost,        \* the latest return value of get_cost, in ten-thousandths
    uop,         \* the latest two operations on the ClaudeHelper
    calls,       \* the number of generate_response calls so far
    returned,    \* the _markdown_to_html calls that have returned, in order
    agent,       \* the agent script that runs
    env,         \* the settings present in the environment of the script
    mpc,         \* main: the statement to run next, or the one it ended at
    enabled,     \* SlackHelper: self.enabled
    exit_code,   \* <<>> while the script runs, then its exit status
    effects,     \* deploy agent: the steps and writes done, in order
    sent,        \* the send_message calls made, in order
    locals       \* main of the unit test and QA agents: its local variables

convVars == <<content, html, pc>>
appendVars == <<store, apc, additional, page, requests>>
usageVars == <<tokens_used, usage, prev_tokens, cost, uop, calls>>
callVars == <<returned>>
agentVars == <<agent, env, mpc, enabled, exit_code, effects, sent>>
vars == <<content, html, pc, store, apc, additional, page, requests,
          tokens_used, usage, prev_tokens, cost, uop, calls, returned,
          agent, env, mpc, enabled, exit_code, effects, sent, locals>>

\* what each part of the program leaves alone
outsideConv == <<appendVars, usageVars, callVars, agentVars, locals>>
outsideAppend == <<convVars, usageVars, callVars, agentVars, locals>>
outsideUsage == <<convVars, appendVars, callVars, agentVars, locals>>
outsideAgent == <<convVars, appendVars, usageVars, callVars, locals>>
outsideTest == <<convVars, appendVars, usageVars, callVars>>

(***************************************************************************)
(* Bounds and inputs.                                                      *)
(***************************************************************************)
MaxPieces == 4
NumCallers == 2

Tick == "BACKTICK"

Pieces ==
    { <<"#">>, <<" ">>, <<"\n">>, <<"*">>, <<"*", "*">>,
      <<Tick, Tick, Tick>>, <<"-", " ">>, <<"a">> }

RECURSIVE Concats(_)
Concats(n) ==
    IF n = 0 THEN { <<>> }
    ELSE LET prev == Concats(n - 1)
         IN  prev \cup { p \o q : p \in prev, q \in Pieces }

ExEmpty == <<>>
ExBold == <<"*", "*", "b", "o", "l", "d", "*", "*">>
ExBoldOdd == <<"*", "*", "a", "*", "*", "b", "*", "*">>
ExList == <<"-", " ", "x", "\n", "-", " ", "y", "\n", "-", " ", "z">>
ExTitleSub ==
    <<"#", " ", "T", "i", "t", "l", "e", "\n", "#", "#", " ", "S", "u", "b">>
ExFencePair == <<Tick, Tick, Tick, "a", Tick, Tick, Tick>>
ExFenceBlank == <<Tick, Tick, Tick, "\n", "\n", Tick, Tick, Tick>>
ExListBlank == <<"-", " ", "a", "\n", "\n", "-", " ", "a">>
ExHeaders ==
    <<"#", "#", "#", " ", "a", "\n", "#", "#", " ", "b", "\n", "#", " ", "c">>

Examples ==
    { ExEmpty, ExBold, ExBoldOdd, ExList, ExTitleSub, ExFencePair,
      ExFenceBlank, ExListBlank, ExHeaders }

Inputs == Concats(MaxPieces) \cup Examples

(***************************************************************************)
(* Python string operations on token sequences.  A recursive operator      *)
(* binds the value of its sequence argument with  s \in {text}  and works  *)
(* on s, so that the argument is evaluated once per call.                  *)
(***************************************************************************)
Only(S) == CHOOSE x \in S : TRUE

StartsWith(s, pat) ==
    Len(s) >= Len(pat) /\ SubSeq(s, 1, Len(pat)) = pat

Drop(s, n) == SubSeq(s, n + 1, Len(s))

\* pat in text
RECURSIVE Contains(_, _)
Contains(text, pat) ==
    \E s \in {text} :
        IF Len(s) < Len(pat) THEN FALSE
        ELSE StartsWith(s, pat) \/ Contains(Tail(s), pat)

\* text.replace(pat, rep): every occurrence, left to right, without overlap
RECURSIVE ReplaceAll(_, _, _)
ReplaceAll(text, pat, rep) ==
    Only({ IF Len(s) < Len(pat) THEN s
           ELSE IF StartsWith(s, pat)
                THEN rep \o ReplaceAll(Drop(s, Len(pat)), pat, rep)
                ELSE <<Head(s)>> \o ReplaceAll(Tail(s), pat, rep)
           : s \in {text} })

\* text.replace(pat, rep, 1): the leftmost occurrence only
RECURSIVE ReplaceFirst(_, _, _)
ReplaceFirst(text, pat, rep) ==
    Only({ IF Len(s) < Len(pat) THEN s
           ELSE IF StartsWith(s, pat)
                THEN rep \o Drop(s, Len(pat))
                ELSE <<Head(s)>> \o ReplaceFirst(Tail(s), pat, rep)
           : s \in {text} })

\* the lines of c + rest, given the lines of rest
PushChar(c, rest) ==
    Only({ IF c = "\n" THEN << <<>> >> \o lines
           ELSE << <<c>> \o Head(lines) >> \o Tail(lines)
           : lines \in {rest} })

\* text.split('\n'): always at least one line
RECURSIVE SplitLines(_)
SplitLines(text) ==
    Only({ IF s = <<>> THEN << <<>> >>
           ELSE PushChar(Head(s), SplitLines(Tail(s)))
           : s \in {text} })

\* '\n'.join(result_lines)
RECURSIVE JoinLines(_)
JoinLines(result_lines) ==
    Only({ IF lines = <<>> THEN <<>>
           ELSE IF Len(lines) = 1 THEN Head(lines)
           ELSE Head(lines) \o <<"\n">> \o JoinLines(Tail(lines))
           : lines \in {result_lines} })

Whitespace == {" ", "\n", "\t", "\r"}

RECURSIVE LStrip(_)
LStrip(text) ==
    Only({ IF s # <<>> /\ Head(s) \in Whitespace THEN LStrip(Tail(s)) ELSE s
           : s \in {text} })

RECURSIVE RStrip(_)
RStrip(text) ==
    Only({ IF s # <<>> /\ s[Len(s)] \in Whitespace
           THEN RStrip(SubSeq(s, 1, Len(s) - 1))
           ELSE s
           : s \in {text} })

\* line.strip()
Strip(s) == RStrip(LStrip(s))

(***************************************************************************)
(* The rules of _markdown_to_html.                                         *)
(***************************************************************************)
H3Open == <<"<h3>">>
H2Open == <<"<h2>">>
H1Open == <<"<h1>">>
H3CloseH2 == <<"</h3>", "\n", "<h2>">>
H2CloseH1 == <<"</h2>", "\n", "<h1>">>
StrongOpen == <<"<strong>">>
StrongClose == <<"</strong>">>
MacroOpen == <<"<ac:structured-macro ac:name=\"code\"><ac:plain-text-body><![CDATA[">>
MacroClose == <<"]]></ac:plain-text-body></ac:structured-macro>">>
Fence == <<Tick, Tick, Tick>>
Stars == <<"*", "*">>

\* variant: the markers become opening tags, nothing is ever closed
HeadersRuleOpenOnly(s) ==
    ReplaceAll(ReplaceAll(ReplaceAll(s, <<"#", "#", "#", " ">>, H3Open),
                          <<"#", "#", " ">>, H2Open),
               <<"#", " ">>, H1Open)

\* variant: the level-2 line runs before the level-3 line
HeadersRuleShortFirst(s) ==
    ReplaceAll(
        ReplaceAll(
            ReplaceAll(
                ReplaceAll(ReplaceAll(s, <<"#", "#", " ">>, H2Open),
                           <<"\n", "#">>, H2CloseH1),
                <<"#", "#", "#", " ">>, H3Open),
            <<"\n", "#", "#">>, H3CloseH2),
        <<"#", " ">>, H1Open)

\* line 160
HeadersLevel3(s) ==
    ReplaceAll(ReplaceAll(s, <<"#", "#", "#", " ">>, H3Open),
               <<"\n", "#", "#">>, H3CloseH2)

\* line 161
HeadersLevel2(s) ==
    ReplaceAll(ReplaceAll(s, <<"#", "#", " ">>, H2Open),
               <<"\n", "#">>, H2CloseH1)

\* line 162
HeadersLevel1(s) == ReplaceAll(s, <<"#", " ">>, H1Open)

\* the three header lines, in the code's order
HeadersRule(s) == HeadersLevel1(HeadersLevel2(HeadersLevel3(s)))

\* variant: the second delimiter also becomes an opening tag
BoldIterationOpenOnly(s) ==
    ReplaceFirst(ReplaceFirst(s, Stars, StrongOpen), Stars, StrongOpen)

\* variant: only a complete pair of delimiters is replaced
BoldIterationPairsOnly(s) ==
    IF Contains(ReplaceFirst(s, Stars, StrongOpen), Stars)
    THEN ReplaceFirst(ReplaceFirst(s, Stars, StrongOpen), Stars, StrongClose)
    ELSE s

\* one iteration of the bold loop
BoldIteration(s) ==
    ReplaceFirst(ReplaceFirst(s, Stars, StrongOpen), Stars, StrongClose)

\* the whole bold loop
RECURSIVE BoldRule(_)
BoldRule(text) ==
    Only({ IF Contains(s, Stars) THEN BoldRule(BoldIteration(s)) ELSE s
           : s \in {text} })

\* line.strip().startswith('- ')
IsListLine(line) == \E stripped \in {Strip(line)} : StartsWith(stripped, <<"-", " ">>)

\* f"<li>{line.strip()[2:]}</li>"
ListItem(line) ==
    Only({ <<"<li>">> \o Drop(stripped, 2) \o <<"</li>">>
           : stripped \in {Strip(line)} })

\* variant: the close after the loop is missing
RECURSIVE ListLoopNoFinalClose(_, _)
ListLoopNoFinalClose(rest, in_list) ==
    Only({ IF lines = <<>> THEN <<>>
           ELSE IF IsListLine(Head(lines))
                THEN (IF in_list THEN <<>> ELSE << <<"<ul>">> >>)
                     \o << ListItem(Head(lines)) >>
                     \o ListLoopNoFinalClose(Tail(lines), TRUE)
                ELSE (IF in_list THEN << <<"</ul>">> >> ELSE <<>>)
                     \o << Head(lines) >>
                     \o ListLoopNoFinalClose(Tail(lines), FALSE)
           : lines \in {rest} })

\* the for loop over the lines, with its in_list flag, and the final close
RECURSIVE ListLoop(_, _)
ListLoop(rest, in_list) ==
    Only({ IF lines = <<>> THEN (IF in_list THEN << <<"</ul>">> >> ELSE <<>>)
           ELSE IF IsListLine(Head(lines))
                THEN (IF in_list THEN <<>> ELSE << <<"<ul>">> >>)
                     \o << ListItem(Head(lines)) >>
                     \o ListLoop(Tail(lines), TRUE)
                ELSE (IF in_list THEN << <<"</ul>">> >> ELSE <<>>)
                     \o << Head(lines) >>
                     \o ListLoop(Tail(lines), FALSE)
           : lines \in {rest} })

ListsRule(s) == JoinLines(ListLoop(SplitLines(s), FALSE))

\* variant: only the first blank line becomes a paragraph boundary
ParagraphsRuleFirstOnly(s) ==
    <<"<p>">> \o ReplaceFirst(s, <<"\n", "\n">>, <<"</p>", "<p>">>) \o <<"</p>">>

\* variant: empty content is returned as it is
ParagraphsRuleSkipEmpty(s) ==
    IF s = <<>> THEN s
    ELSE <<"<p>">> \o ReplaceAll(s, <<"\n", "\n">>, <<"</p>", "<p>">>)
                   \o <<"</p>">>

\* variant: content that already starts with <p> is not wrapped again
ParagraphsRuleWrapOnce(s) ==
    IF StartsWith(s, <<"<p>">>)
    THEN ReplaceAll(s, <<"\n", "\n">>, <<"</p>", "<p>">>)
    ELSE <<"<p>">> \o ReplaceAll(s, <<"\n", "\n">>, <<"</p>", "<p>">>)
                   \o <<"</p>">>

ParagraphsRule(s) ==
    <<"<p>">> \o ReplaceAll(s, <<"\n", "\n">>, <<"</p>", "<p>">>) \o <<"</p>">>

FencesRule(s) == ReplaceAll(ReplaceAll(s, Fence, MacroOpen), Fence, MacroClose)

\* _markdown_to_html as one function
Convert(s) == FencesRule(ParagraphsRule(ListsRule(BoldRule(HeadersRule(s)))))

(***************************************************************************)
(* One call of _markdown_to_html, statement by statement.                  *)
(***************************************************************************)
\* variant: the paragraph statements run before the list statements
OrderParagraphsFirst ==
    <<"headers", "bold", "paragraphs", "lists", "fences", "done">>

\* the order of the statements of the function body
Order == <<"headers", "bold", "lists", "paragraphs", "fences", "done">>

After(p) == Order[(CHOOSE i \in 1..Len(Order) : Order[i] = p) + 1]

Callers == 1..NumCallers

NoPage == [value |-> <<>>, version |-> 0, title |-> "none"]

AppendIdle ==
    /\ store = NoPage
    /\ apc = [c \in Callers |-> "idle"]
    /\ additional = [c \in Callers |-> <<>>]
    /\ page = [c \in Callers |-> NoPage]
    /\ requests = <<>>

\* no response yet
NoUsage == [input_tokens |-> 0, output_tokens |-> 0]

\* ClaudeHelper.__init__: self.tokens_used = 0
UsageIdle ==
    /\ tokens_used = 0
    /\ usage = NoUsage
    /\ prev_tokens = 0
    /\ cost = 0
    /\ uop = <<"none", "init">>
    /\ calls = 0

\* no call of _markdown_to_html has returned
CallsIdle == returned = <<>>

\* main of the unit test and QA agents has not run: no local is bound
NoLocals ==
    [commit_sha |-> "", pr_body |-> [none |-> FALSE, words |-> <<>>],
     results |-> "unbound", status_text |-> "unbound",
     github_success |-> "unbound"]

\* no agent script runs
AgentIdle ==
    /\ agent = "none"
    /\ env = {}
    /\ mpc = "none"
    /\ enabled = FALSE
    /\ exit_code = <<>>
    /\ effects = <<>>
    /\ sent = <<>>

Init ==
    /\ content \in Inputs
    /\ html = content
    /\ pc = Order[1]
    /\ AppendIdle
    /\ UsageIdle
    /\ CallsIdle
    /\ locals = NoLocals
    /\ AgentIdle

HeadersStep ==
    /\ pc = "headers"
    /\ html' = HeadersRule(html)
    /\ pc' = After(pc)
    /\ UNCHANGED <<content, outsideConv>>

BoldStep ==
    /\ pc = "bold"
    /\ Contains(html, Stars)
    /\ html' = BoldIteration(html)
    /\ UNCHANGED <<content, pc, outsideConv>>

BoldExit ==
    /\ pc = "bold"
    /\ ~Contains(html, Stars)
    /\ pc' = After(pc)
    /\ UNCHANGED <<content, html, outsideConv>>

ListsStep ==
    /\ pc = "lists"
    /\ html' = ListsRule(html)
    /\ pc' = After(pc)
    /\ UNCHANGED <<content, outsideConv>>

ParagraphsStep ==
    /\ pc = "paragraphs"
    /\ html' = ParagraphsRule(html)
    /\ pc' = After(pc)
    /\ UNCHANGED <<content, outsideConv>>

FencesStep ==
    /\ pc = "fences"
    /\ html' = FencesRule(html)
    /\ pc' = After(pc)
    /\ UNCHANGED <<content, outsideConv>>

Next ==
    \/ HeadersStep
    \/ BoldStep
    \/ BoldExit
    \/ ListsStep
    \/ ParagraphsStep
    \/ FencesStep

Spec == Init /\ [][Next]_vars

\* The same call, entered from a caller: the statements of the function run
\* one after the other until it returns.
LiveInit ==
    /\ content = <<>>
    /\ html = <<>>
    /\ pc = "call"
    /\ AppendIdle
    /\ UsageIdle
    /\ CallsIdle
    /\ locals = NoLocals
    /\ AgentIdle

\* variant: html is set on the first call only and kept from call to call
EnterWithKept(S) ==
    /\ pc = "call"
    /\ content' \in S
    /\ html' = IF html = <<>> THEN content' ELSE html
    /\ pc' = Order[1]
    /\ UNCHANGED outsideConv

\* a call with an argument from S; html = content
EnterWith(S) ==
    /\ pc = "call"
    /\ content' \in S
    /\ html' = content'
    /\ pc' = Order[1]
    /\ UNCHANGED outsideConv

Enter == EnterWith(Inputs)

LiveNext == Enter \/ Next

LiveSpec == LiveInit /\ [][LiveNext]_vars /\ WF_vars(LiveNext)

(***************************************************************************)
(* Calls of _markdown_to_html one after the other on one helper.           *)
(***************************************************************************)
\* the calls that are followed to their return before the last one
MaxReturns == 2

Call == EnterWith(Examples)

\* return html
Return ==
    /\ pc = "done"
    /\ Len(returned) < MaxReturns
    /\ returned' = Append(returned, [input |-> content, output |-> html])
    /\ pc' = "call"
    /\ UNCHANGED <<content, html, appendVars, usageVars, agentVars, locals>>

CallsNext == Call \/ Next \/ Return

CallsSpec == LiveInit /\ [][CallsNext]_vars

(***************************************************************************)
(* append_to_page and update_page against the wiki.  A call is split at    *)
(* its two requests; the wiki answers each request atomically.             *)
(***************************************************************************)
Divider == <<"<hr/>">>

\* what the page held before the calls
PageValues == { <<>>, <<"<p>", "a", "</p>">>, <<"C", "#", " ", "a">> }

\* the additional_content arguments
AppendInputs == { <<>>, <<"a">>, <<"*", "*", "a", "*", "*">> }

AppendInit ==
    /\ content = <<>>
    /\ html = <<>>
    /\ pc = "idle"
    /\ store \in [value : PageValues, version : {1}, title : {"Standup"}]
    /\ apc = [c \in Callers |-> "idle"]
    /\ additional = [c \in Callers |-> <<>>]
    /\ page = [c \in Callers |-> NoPage]
    /\ requests = <<>>
    /\ UsageIdle
    /\ CallsIdle
    /\ locals = NoLocals
    /\ AgentIdle

\* a caller enters append_to_page(page_id, additional_content)
StartAppend(c) ==
    /\ apc[c] = "idle"
    /\ \E a \in AppendInputs : additional' = [additional EXCEPT ![c] = a]
    /\ apc' = [apc EXCEPT ![c] = "get"]
    /\ UNCHANGED <<outsideAppend, store, page, requests>>

\* the GET is answered 200: current_content, version and title are read
GetOk(c) ==
    /\ apc[c] = "get"
    /\ page' = [page EXCEPT ![c] = store]
    /\ apc' = [apc EXCEPT ![c] = "put"]
    /\ UNCHANGED <<outsideAppend, store, additional, requests>>

\* variant: a failed fetch raises
FetchFailedRaises == "raised"

\* a fetch answered with another status than 200: print and return
FetchFailed == "returned"

\* the GET is answered with another status: print and return
GetFail(c) ==
    /\ apc[c] = "get"
    /\ apc' = [apc EXCEPT ![c] = FetchFailed]
    /\ UNCHANGED <<outsideAppend, store, additional, page, requests>>

\* variant: the new content replaces the page
UpdatedContentReplaces(current_content, additional_content) ==
    Convert(additional_content)

\* append_to_page's updated_content, handed to update_page as content
UpdatedContent(current_content, additional_content) ==
    current_content \o Divider \o Convert(additional_content)

\* the JSON body update_page sends for (page_id, title, content, version)
UpdateData(title, page_content, version) ==
    [number |-> version + 1, title |-> title, value |-> Convert(page_content)]

\* the request caller c sends from what it fetched
PutData(c) ==
    UpdateData(page[c].title,
               UpdatedContent(page[c].value, additional[c]),
               page[c].version)

\* the log of update requests, with the status the wiki answers
Sent(c, status) ==
    Append(requests, [caller |-> c, data |-> PutData(c), status |-> status])

\* variant: update_page returns whatever the status
UpdateOutcomeSilent(status) == "returned"

\* update_page returns the result at status 200 and raises otherwise
UpdateOutcome(status) == IF status = 200 THEN "returned" ELSE "raised"

\* the PUT is answered 200: the wiki stores the new version
PutOk(c) ==
    /\ apc[c] = "put"
    /\ PutData(c).number = store.version + 1
    /\ store' = [value |-> PutData(c).value,
                 version |-> PutData(c).number,
                 title |-> PutData(c).title]
    /\ requests' = Sent(c, 200)
    /\ apc' = [apc EXCEPT ![c] = UpdateOutcome(200)]
    /\ UNCHANGED <<outsideAppend, additional, page>>

\* the PUT carries a stale version number: the wiki answers non-200 and
\* update_page raises
PutConflict(c) ==
    /\ apc[c] = "put"
    /\ PutData(c).number # store.version + 1
    /\ requests' = Sent(c, 409)
    /\ apc' = [apc EXCEPT ![c] = UpdateOutcome(409)]
    /\ UNCHANGED <<outsideAppend, store, additional, page>>

\* the PUT fails for another reason: non-200 and update_page raises
PutError(c) ==
    /\ apc[c] = "put"
    /\ requests' = Sent(c, 500)
    /\ apc' = [apc EXCEPT ![c] = UpdateOutcome(500)]
    /\ UNCHANGED <<outsideAppend, store, additional, page>>

\* the standup agent prints that the standup was added when
\* append_to_page has returned
ReportsAdded(c) == apc[c] = "returned"

AppendNext ==
    \E c \in Callers :
        \/ StartAppend(c)
        \/ GetOk(c)
        \/ GetFail(c)
        \/ PutOk(c)
        \/ PutConflict(c)
        \/ PutError(c)

AppendSpec == AppendInit /\ [][AppendNext]_vars

(***************************************************************************)
(* Binary floating point (Python float, IEEE 754 binary64), as get_cost    *)
(* uses it.  A float x >= 0 is a record [m, e] standing for m * 2^e, where *)
(* m is a natural number of at most 53 binary digits, written as a         *)
(* sequence of digits in base 2^LimbBits, most significant first (<<>> is  *)
(* zero).  Every operation computes the exact result and rounds it to 53   *)
(* significant binary digits, ties to even.                                *)
(***************************************************************************)
LimbBits == 10
Base == 2 ^ LimbBits

\* the digits of a natural number
RECURSIVE NatLimbs(_)
NatLimbs(n) == IF n = 0 THEN <<>> ELSE NatLimbs(n \div Base) \o <<n % Base>>

\* the natural number with the given digits
RECURSIVE LimbsNat(_)
LimbsNat(a) ==
    IF a = <<>> THEN 0 ELSE Base * LimbsNat(SubSeq(a, 1, Len(a) - 1)) + a[Len(a)]

ZeroLimbs(n) == [i \in 1..n |-> 0]

Front(a) == SubSeq(a, 1, Len(a) - 1)
LastLimb(a) == IF a = <<>> THEN 0 ELSE a[Len(a)]

\* a + b + carry
RECURSIVE AddLimbs(_, _, _)
AddLimbs(a, b, carry) ==
    IF a = <<>> /\ b = <<>> THEN NatLimbs(carry)
    ELSE LET s == LastLimb(a) + LastLimb(b) + carry
         IN  AddLimbs(Front(a), Front(b), s \div Base) \o <<s % Base>>

\* a * k + carry, for a natural number k below 2^20
RECURSIVE MulLimbs(_, _, _)
MulLimbs(a, k, carry) ==
    IF a = <<>> THEN NatLimbs(carry)
    ELSE LET s == LastLimb(a) * k + carry
         IN  MulLimbs(Front(a), k, s \div Base) \o <<s % Base>>

\* (r * Base^Len(a) + a) divided by d: quotient digits and remainder,
\* for a natural number d below 2^20
RECURSIVE DivLimbs(_, _, _)
DivLimbs(a, d, r) ==
    IF a = <<>> THEN [q |-> <<>>, r |-> r]
    ELSE LET r2 == Base * r + Head(a)
             rest == DivLimbs(Tail(a), d, r2 % d)
         IN  [q |-> <<r2 \div d>> \o rest.q, r |-> rest.r]

\* without leading zero digits
RECURSIVE Trim(_)
Trim(a) == IF a # <<>> /\ Head(a) = 0 THEN Trim(Tail(a)) ELSE a

\* -1, 0, 1 as a < b, a = b, a > b
RECURSIVE CmpLimbs(_, _)
CmpLimbs(a, b) ==
    IF Len(a) # Len(b) THEN (IF Len(a) < Len(b) THEN -1 ELSE 1)
    ELSE IF a = <<>> THEN 0
    ELSE IF Head(a) # Head(b) THEN (IF Head(a) < Head(b) THEN -1 ELSE 1)
    ELSE CmpLimbs(Tail(a), Tail(b))

\* the number of binary digits of a natural number below Base
RECURSIVE Width(_)
Width(n) == IF n = 0 THEN 0 ELSE 1 + Width(n \div 2)

BitLength(a) == IF a = <<>> THEN 0 ELSE LimbBits * (Len(a) - 1) + Width(Head(a))

\* the tests of one pytest run the model follows
MaxTests == 5

\* a * 2^n
ShiftLeft(a, n) == Trim(MulLimbs(a, 2 ^ (n % LimbBits), 0)) \o ZeroLimbs(n \div LimbBits)

\* a = q * 2^n + r: the quotient, and r compared with the half of 2^n
\* (-1 below, 0 equal, 1 above); zero reports r = 0
ShiftRight(a, n) ==
    LET w == (n + LimbBits - 1) \div LimbBits
        scaled == ZeroLimbs(w) \o MulLimbs(a, 2 ^ (LimbBits * w - n), 0)
        keep == Trim(SubSeq(scaled, 1, Len(scaled) - w))
        dropped == SubSeq(scaled, Len(scaled) - w + 1, Len(scaled))
    IN  IF n = 0 THEN [q |-> a, half |-> -1, zero |-> TRUE]
        ELSE [q |-> keep,
              half |-> CmpLimbs(Trim(dropped), <<Base \div 2>> \o ZeroLimbs(w - 1)),
              zero |-> Trim(dropped) = <<>>]

\* the significant binary digits of a float
Precision == 53

\* m * 2^e rounded to a float; sticky says that the exact value lies
\* above m * 2^e by less than 2^e

Round53(m, e, sticky) ==
    IF BitLength(m) <= Precision THEN [m |-> m, e |-> e]
    ELSE LET n == BitLength(m) - Precision
             sh == ShiftRight(m, n)
             up == \/ sh.half = 1
                   \/ sh.half = 0 /\ (sticky \/ LastLimb(sh.q) % 2 = 1)
         IN  [m |-> IF up THEN AddLimbs(sh.q, <<>>, 1) ELSE sh.q, e |-> e + n]

\* x * k for a float x and an integer-valued float k
FMul(x, k) == Round53(Trim(MulLimbs(x.m, k, 0)), x.e, FALSE)

\* the binary digits the quotient is computed to before it is rounded
DivShift == 80

\* n / d for natural numbers n and d
FDiv(n, d) ==
    LET dv == DivLimbs(ShiftLeft(NatLimbs(n), DivShift), d, 0)
    IN  Round53(Trim(dv.q), 0 - DivShift, dv.r # 0)

\* x + y
FAdd(x, y) ==
    LET e == IF x.e < y.e THEN x.e ELSE y.e
    IN  Round53(Trim(AddLimbs(ShiftLeft(x.m, x.e - e), ShiftLeft(y.m, y.e - e), 0)),
                e, FALSE)

\* int(x)
Truncate(x) == IF x.e >= 0 THEN LimbsNat(ShiftLeft(x.m, x.e))
               ELSE LimbsNat(ShiftRight(x.m, 0 - x.e).q)

\* the float literals 0.7 and 0.3: the floats nearest to 7/10 and 3/10
Seven10 == [m |-> <<5, 614, 409, 614, 409, 614>>, e |-> 0 - 53]
Three10 == [m |-> <<4, 819, 204, 819, 204, 819>>, e |-> 0 - 54]

\* round(x, 4), in ten-thousandths: the multiple of 1/10000 nearest to the
\* float x, the even one when x lies exactly between two
Round4(x) ==
    LET floor == Truncate(FMul(x, 10000))
        c == CmpLimbs(ShiftLeft(Trim(MulLimbs(x.m, 20000, 0)),
                                IF x.e > 0 THEN x.e ELSE 0),
                      ShiftLeft(NatLimbs(2 * floor + 1),
                                IF x.e < 0 THEN 0 - x.e ELSE 0))
    IN  IF c > 0 \/ (c = 0 /\ floor % 2 = 1) THEN floor + 1 ELSE floor

(***************************************************************************)
(* ClaudeHelper: the token count and the cost estimate.                    *)
(***************************************************************************)
\* the generate_response calls a client is followed through
MaxCalls == 3

\* the usage the model service reports with a response
Usages ==
    { [input_tokens |-> 5, output_tokens |-> 2],
      [input_tokens |-> 8, output_tokens |-> 2],
      [input_tokens |-> 60, output_tokens |-> 30],
      [input_tokens |-> 100, output_tokens |-> 15],
      [input_tokens |-> 500, output_tokens |-> 220],
      [input_tokens |-> 600, output_tokens |-> 150],
      [input_tokens |-> 800, output_tokens |-> 200] }

\* variant: the new usage is added to the stored count
RecordUsageAccumulate(old, u) == old + u.input_tokens + u.output_tokens

\* self.tokens_used = response.usage.input_tokens + response.usage.output_tokens
RecordUsage(old, u) == u.input_tokens + u.output_tokens

\* variant: the input share kept in nine binary digits
input_tokens_wrapped(t) == Truncate(FMul(Seven10, t)) % 512

\* int(self.tokens_used * 0.7) and int(self.tokens_used * 0.3)
input_tokens(t) == Truncate(FMul(Seven10, t))
output_tokens(t) == Truncate(FMul(Three10, t))

\* (input_tokens / 1_000_000) * 3.00 and (output_tokens / 1_000_000) * 15.00
input_cost(t) == FMul(FDiv(input_tokens(t), 1000000), 3)
output_cost(t) == FMul(FDiv(output_tokens(t), 1000000), 15)

\* what get_cost returns for a stored count t, in ten-thousandths
get_cost(t) == Round4(FAdd(input_cost(t), output_cost(t)))

UsageInit ==
    /\ content = <<>>
    /\ html = <<>>
    /\ pc = "idle"
    /\ AppendIdle
    /\ UsageIdle
    /\ CallsIdle
    /\ locals = NoLocals
    /\ AgentIdle

\* generate_response returns: the request succeeded and the response has
\* a text
GenerateOk(u) ==
    /\ calls < MaxCalls
    /\ tokens_used' = RecordUsage(tokens_used, u)
    /\ usage' = u
    /\ prev_tokens' = tokens_used
    /\ uop' = <<uop[2], "generate">>
    /\ calls' = calls + 1
    /\ UNCHANGED <<cost, outsideUsage>>

\* generate_response raises: the request itself failed
GenerateRaise ==
    /\ calls < MaxCalls
    /\ uop' = <<uop[2], "raised">>
    /\ calls' = calls + 1
    /\ UNCHANGED <<tokens_used, usage, prev_tokens, cost, outsideUsage>>

\* generate_response raises at response.content[0].text: the response came,
\* its usage is stored, and it holds no text
GenerateNoText(u) ==
    /\ calls < MaxCalls
    /\ tokens_used' = RecordUsage(tokens_used, u)
    /\ usage' = u
    /\ prev_tokens' = tokens_used
    /\ uop' = <<uop[2], "raised">>
    /\ calls' = calls + 1
    /\ UNCHANGED <<cost, outsideUsage>>

\* variant: the count is cleared once it has been read
GetCostAndClear ==
    /\ cost' = get_cost(tokens_used)
    /\ tokens_used' = 0
    /\ uop' = <<uop[2], "get_cost">>
    /\ UNCHANGED <<usage, prev_tokens, calls, outsideUsage>>

\* get_cost
GetCost ==
    /\ cost' = get_cost(tokens_used)
    /\ uop' = <<uop[2], "get_cost">>
    /\ UNCHANGED <<tokens_used, usage, prev_tokens, calls, outsideUsage>>

\* variant: reset_tokens leaves the count
ResetTokensKeeps ==
    /\ uop' = <<uop[2], "reset">>
    /\ UNCHANGED <<tokens_used, usage, prev_tokens, cost, calls, outsideUsage>>

\* reset_tokens
ResetTokens ==
    /\ tokens_used' = 0
    /\ uop' = <<uop[2], "reset">>
    /\ UNCHANGED <<usage, prev_tokens, cost, calls, outsideUsage>>

UsageNext ==
    \/ \E u \in Usages : GenerateOk(u)
    \/ GenerateRaise
    \/ \E u \in Usages : GenerateNoText(u)
    \/ GetCost
    \/ ResetTokens

UsageSpec == UsageInit /\ [][UsageNext]_vars

\* the stored counts get_cost is followed on
MaxTokens == 1200

\* a helper with any stored count
CostInit ==
    /\ content = <<>>
    /\ html = <<>>
    /\ pc = "idle"
    /\ AppendIdle
    /\ tokens_used \in 0..MaxTokens
    /\ usage = NoUsage
    /\ prev_tokens = 0
    /\ cost = 0
    /\ uop = <<"none", "init">>
    /\ calls = 0
    /\ CallsIdle
    /\ locals = NoLocals
    /\ AgentIdle

\* get_cost on every stored count
CostSpec == CostInit /\ [][GetCost]_vars

(***************************************************************************)
(* SlackHelper: the constructor and send_message.                          *)
(***************************************************************************)
\* the send_message calls one helper is followed through
MaxSends == 3

\* what a request to the webhook can end in: a response with a status
\* code, or an exception of the request (connection error, timeout)
Answers ==
    { [raised |-> FALSE, status_code |-> "200"],
      [raised |-> FALSE, status_code |-> "204"],
      [raised |-> FALSE, status_code |-> "404"],
      [raised |-> FALSE, status_code |-> "500"],
      [raised |-> TRUE, status_code |-> "none"] }

\* no request was made
NoAnswer == [raised |-> FALSE, status_code |-> "none"]

\* variant: every 2xx status counts as sent
send_message_2xx(is_enabled, answer) ==
    IF ~is_enabled
    THEN [requested |-> FALSE, answer |-> NoAnswer,
          raises |-> FALSE, result |-> FALSE]
    ELSE [requested |-> TRUE, answer |-> answer, raises |-> FALSE,
          result |-> ~answer.raised /\ answer.status_code \in {"200", "204"}]

\* send_message: whether a request is made, whether the call raises, and
\* what it returns
send_message(is_enabled, answer) ==
    IF ~is_enabled
    THEN [requested |-> FALSE, answer |-> NoAnswer,
          raises |-> FALSE, result |-> FALSE]
    ELSE [requested |-> TRUE, answer |-> answer, raises |-> FALSE,
          result |-> ~answer.raised /\ answer.status_code = "200"]

SlackInit ==
    /\ content = <<>>
    /\ html = <<>>
    /\ pc = "idle"
    /\ AppendIdle
    /\ UsageIdle
    /\ CallsIdle
    /\ locals = NoLocals
    /\ agent = "caller"
    /\ env \in SUBSET {"SLACK_WEBHOOK_URL"}
    /\ mpc = "SlackHelper"
    /\ enabled = FALSE
    /\ exit_code = <<>>
    /\ effects = <<>>
    /\ sent = <<>>

\* SlackHelper(): a missing webhook URL disables the helper
NewSlackHelper ==
    /\ agent = "caller"
    /\ mpc = "SlackHelper"
    /\ enabled' = ("SLACK_WEBHOOK_URL" \in env)
    /\ mpc' = "ready"
    /\ UNCHANGED <<agent, env, exit_code, effects, sent, outsideAgent>>

\* a send_message call on the helper
SendMessage ==
    /\ agent = "caller"
    /\ mpc = "ready"
    /\ Len(sent) < MaxSends
    /\ \E answer \in Answers :
           sent' = Append(sent, send_message(enabled, answer))
    /\ UNCHANGED <<agent, env, mpc, enabled, exit_code, effects, outsideAgent>>

SlackNext == NewSlackHelper \/ SendMessage

SlackSpec == SlackInit /\ [][SlackNext]_vars

(***************************************************************************)
(* The agent scripts: main of the deploy agent, statement by statement,    *)
(* and the start of main of the PM standup, QA and unit test agents up to  *)
(* the first statement that needs no setting.                              *)
(***************************************************************************)
Agents == {"deploy_agent", "pm_standup_agent", "qa_agent", "unit_test_agent"}

\* the seven emulated steps, in the order of main
DeploySteps ==
    <<"build_image", "push_image", "update_task", "deploy_service",
      "migrations", "health_checks", "smoke_tests">>

\* the statements of main that the model follows
Plan(a) ==
    CASE a = "deploy_agent" ->
           <<"SlackHelper">> \o DeploySteps
               \o <<"write_summary", "send_message", "exit">>
      [] a = "pm_standup_agent" ->
           <<"ConfluenceHelper", "SlackHelper", "ClaudeHelper",
             "get_recent_activity", "work">>
      [] a = "qa_agent" ->
           <<"PR_NUMBER", "JiraHelper", "SlackHelper", "ClaudeHelper",
             "get_pr_details", "work">>
      [] a = "unit_test_agent" ->
           <<"SlackHelper", "ClaudeHelper", "work">>

\* the statement after statement st of main
Following(a, st) ==
    Plan(a)[(CHOOSE i \in 1..Len(Plan(a)) : Plan(a)[i] = st) + 1]

\* JiraHelper.__init__ raises unless all of these are set
JiraSettings ==
    {"JIRA_URL", "JIRA_EMAIL", "JIRA_API_TOKEN", "JIRA_PROJECT_KEY"}

\* ConfluenceHelper.__init__ raises unless all of these are set
ConfluenceSettings ==
    {"CONFLUENCE_URL", "JIRA_EMAIL", "JIRA_API_TOKEN", "CONFLUENCE_SPACE_KEY"}

\* ClaudeHelper.__init__ raises unless this is set
ClaudeSettings == {"ANTHROPIC_API_KEY"}

\* variant: the chat helper refuses to start without its webhook URL
SlackSettingsRequired == {"SLACK_WEBHOOK_URL"}

\* SlackHelper.__init__ raises on no missing setting
SlackSettings == {}

\* os.environ[...] in get_recent_activity and get_pr_details raises
\* unless these are set
CodeHostSettings == {"GITHUB_REPOSITORY", "GITHUB_TOKEN"}

\* the settings without which a statement exits or raises
Needs(st) ==
    CASE st = "PR_NUMBER" -> {"PR_NUMBER"}
      [] st = "JiraHelper" -> JiraSettings
      [] st = "ConfluenceHelper" -> ConfluenceSettings
      [] st = "ClaudeHelper" -> ClaudeSettings
      [] st = "SlackHelper" -> SlackSettings
      [] st \in {"get_recent_activity", "get_pr_details"} -> CodeHostSettings
      [] OTHER -> {}

\* the statements that read settings
Startup ==
    {"PR_NUMBER", "JiraHelper", "ConfluenceHelper", "SlackHelper",
     "ClaudeHelper", "get_recent_activity", "get_pr_details"}

\* the settings a script reads without a default value
Uses(a) ==
    CASE a = "deploy_agent" -> {"SLACK_WEBHOOK_URL"}
      [] a = "pm_standup_agent" ->
           ConfluenceSettings \cup ClaudeSettings \cup CodeHostSettings
               \cup {"SLACK_WEBHOOK_URL"}
      [] a = "qa_agent" ->
           {"PR_NUMBER"} \cup JiraSettings \cup ClaudeSettings
               \cup CodeHostSettings \cup {"SLACK_WEBHOOK_URL"}
      [] a = "unit_test_agent" ->
           ClaudeSettings \cup CodeHostSettings \cup {"SLACK_WEBHOOK_URL"}

\* variant: the handler of the deploy agent exits as a failed run would
HandlerExitFails(a) == 1

\* the exit status of the except Exception handler of main
HandlerExit(a) == IF a = "deploy_agent" THEN 0 ELSE 1

AgentInit ==
    /\ content = <<>>
    /\ html = <<>>
    /\ pc = "idle"
    /\ AppendIdle
    /\ UsageIdle
    /\ CallsIdle
    /\ locals = NoLocals
    /\ agent \in Agents
    /\ env \in SUBSET Uses(agent)
    /\ mpc = Plan(agent)[1]
    /\ enabled = FALSE
    /\ exit_code = <<>>
    /\ effects = <<>>
    /\ sent = <<>>

\* a statement that reads settings finds them
Configure ==
    /\ agent \in Agents
    /\ exit_code = <<>>
    /\ mpc \in Startup
    /\ Needs(mpc) \subseteq env
    /\ enabled' = IF mpc = "SlackHelper" THEN "SLACK_WEBHOOK_URL" \in env
                  ELSE enabled
    /\ mpc' = Following(agent, mpc)
    /\ UNCHANGED <<agent, env, exit_code, effects, sent, outsideAgent>>

\* a statement that reads settings misses one: sys.exit(1) for the PR
\* number, an exception that the handler of main turns into its exit else
ConfigureFails ==
    /\ agent \in Agents
    /\ exit_code = <<>>
    /\ mpc \in Startup
    /\ ~(Needs(mpc) \subseteq env)
    /\ exit_code' = IF mpc = "PR_NUMBER" THEN <<1>>
                    ELSE <<HandlerExit(agent)>>
    /\ UNCHANGED <<agent, env, mpc, enabled, effects, sent, outsideAgent>>

\* emulate_deployment_step returns
DeployStep ==
    /\ agent = "deploy_agent"
    /\ exit_code = <<>>
    /\ \E i \in 1..Len(DeploySteps) : mpc = DeploySteps[i]
    /\ effects' = Append(effects, mpc)
    /\ mpc' = Following(agent, mpc)
    /\ UNCHANGED <<agent, env, enabled, exit_code, sent, outsideAgent>>

\* a step raises an exception; the handler of main exits
DeployStepRaises ==
    /\ agent = "deploy_agent"
    /\ exit_code = <<>>
    /\ \E i \in 1..Len(DeploySteps) : mpc = DeploySteps[i]
    /\ exit_code' = <<HandlerExit(agent)>>
    /\ UNCHANGED <<agent, env, mpc, enabled, effects, sent, outsideAgent>>

\* the summary file is written
WriteSummary ==
    /\ agent = "deploy_agent"
    /\ exit_code = <<>>
    /\ mpc = "write_summary"
    /\ effects' = Append(effects, mpc)
    /\ mpc' = Following(agent, mpc)
    /\ UNCHANGED <<agent, env, enabled, exit_code, sent, outsideAgent>>

\* the write of the summary file raises; the handler of main exits
WriteSummaryRaises ==
    /\ agent = "deploy_agent"
    /\ exit_code = <<>>
    /\ mpc = "write_summary"
    /\ exit_code' = <<HandlerExit(agent)>>
    /\ UNCHANGED <<agent, env, mpc, enabled, effects, sent, outsideAgent>>

\* slack.send_message(...) of the deploy agent
Notify ==
    /\ agent = "deploy_agent"
    /\ exit_code = <<>>
    /\ mpc = "send_message"
    /\ \E answer \in Answers :
           /\ sent' = Append(sent, send_message(enabled, answer))
           /\ effects' = IF sent'[Len(sent')].requested
                         THEN Append(effects, mpc) ELSE effects
           /\ IF sent'[Len(sent')].raises
              THEN exit_code' = <<HandlerExit(agent)>> /\ mpc' = mpc
              ELSE exit_code' = exit_code /\ mpc' = Following(agent, mpc)
    /\ UNCHANGED <<agent, env, enabled, outsideAgent>>

\* sys.exit(0) at the end of the try block
ExitZero ==
    /\ agent = "deploy_agent"
    /\ exit_code = <<>>
    /\ mpc = "exit"
    /\ exit_code' = <<0>>
    /\ UNCHANGED <<agent, env, mpc, enabled, effects, sent, outsideAgent>>

\* the rest of main of the other agents: it ends with status 0, or with
\* status 1 (a failed run, or an exception that the handler turns into 1)
WorkEnds ==
    /\ agent \in Agents
    /\ exit_code = <<>>
    /\ mpc = "work"
    /\ \E status \in {0, 1} : exit_code' = <<status>>
    /\ UNCHANGED <<agent, env, mpc, enabled, effects, sent, outsideAgent>>

AgentNext ==
    \/ Configure
    \/ ConfigureFails
    \/ DeployStep
    \/ DeployStepRaises
    \/ WriteSummary
    \/ WriteSummaryRaises
    \/ Notify
    \/ ExitZero
    \/ WorkEnds

AgentSpec == AgentInit /\ [][AgentNext]_vars

\* every statement of main returns or raises in finite time: the steps
\* sleep for a fixed time and the webhook request has a timeout
AgentLiveSpec == AgentInit /\ [][AgentNext]_vars /\ WF_vars(AgentNext)

(***************************************************************************)
(* The results stage of the unit test agent (from run_tests on) and the    *)
(* QA agent (from get_pr_files on).                                        *)
(***************************************************************************)
\* what one pytest run printed and returned: the numbers of PASSED, FAILED
\* and ERROR in its output and its return code, or a timeout
PytestRuns ==
    { r \in [timed_out : BOOLEAN, passed : 0..MaxTests, failed : 0..MaxTests,
             errors : 0..MaxTests, returncode : {0, 1, 2, 5}] :
        /\ r.timed_out =>
               r.passed = 0 /\ r.failed = 0 /\ r.errors = 0 /\ r.returncode = 1
        /\ r.returncode = 0 <=>
               ~r.timed_out /\ r.passed > 0 /\ r.failed = 0 /\ r.errors = 0
        /\ r.returncode \in {2, 5} => r.passed + r.failed + r.errors = 0
        /\ r.returncode = 1 =>
               r.timed_out \/ r.failed + r.errors > 0 }

\* run_tests of the unit test agent
unit_run_tests(r) ==
    IF r.timed_out
    THEN [exit_code |-> 1, passed |-> FALSE, failed |-> TRUE]
    ELSE [exit_code |-> r.returncode,
          passed |-> r.passed > 0, failed |-> r.failed > 0]

\* run_tests of the QA agent
qa_run_tests(r) ==
    IF r.timed_out
    THEN [exit_code |-> 1, passed |-> 0, failed |-> 0, errors |-> 1,
          total |-> 1]
    ELSE [exit_code |-> r.returncode, passed |-> r.passed,
          failed |-> r.failed, errors |-> r.errors,
          total |-> r.passed + r.failed + r.errors]

\* (passed / total) * 100 as a float, 0 when total is 0
success_rate(passed, total) ==
    IF total > 0 THEN FMul(FDiv(passed, total), 100)
    ELSE [m |-> <<>>, e |-> 0]

\* -1, 0, 1 as the float x is below, equal to, above the integer n
FCmp(x, n) ==
    IF x.e < 0 THEN CmpLimbs(x.m, ShiftLeft(NatLimbs(n), 0 - x.e))
    ELSE CmpLimbs(ShiftLeft(x.m, x.e), NatLimbs(n))

\* variant: a rate of exactly 80 counts as many failures
status_text_above(results) ==
    IF FCmp(success_rate(results.passed, results.total), 100) = 0
           /\ results.total > 0
    THEN "All Tests Passed"
    ELSE IF FCmp(success_rate(results.passed, results.total), 80) > 0
    THEN "Some Tests Failed"
    ELSE IF results.total = 0 THEN "No Tests Generated"
    ELSE "Many Tests Failed"

\* the status of the PR comment of the QA agent
status_text(results) ==
    IF FCmp(success_rate(results.passed, results.total), 100) = 0
           /\ results.total > 0
    THEN "All Tests Passed"
    ELSE IF FCmp(success_rate(results.passed, results.total), 80) >= 0
    THEN "Some Tests Failed"
    ELSE IF results.total = 0 THEN "No Tests Generated"
    ELSE "Many Tests Failed"

\* variant: the errors are left out of the failure count
chat_failures_only(results) == results.failed

\* the tests_failed argument the QA agent hands to notify_tests_complete
chat_failures(results) == results.failed + results.errors

\* the status notify_tests_complete puts in the chat message
notify_tests_complete(tests_passed, tests_failed) ==
    IF FCmp(success_rate(tests_passed, tests_passed + tests_failed), 100) = 0
    THEN "All Passed"
    ELSE IF FCmp(success_rate(tests_passed, tests_passed + tests_failed), 80)
                >= 0
    THEN "Some Failures"
    ELSE "Many Failures"

\* the PR bodies: no body at all, or words, some of them ticket keys
Bodies ==
    {[none |-> TRUE, words |-> <<>>]} \cup
    { [none |-> FALSE, words |-> w] :
        w \in { <<>>, <<"text">>, <<"KEY-1">>, <<"see", "KEY-2", "KEY-1">> } }

\* variant: every ticket key of the PR body gets the comment
jira_keys_all(pr_body) ==
    SelectSeq(pr_body.words, LAMBDA w : w \in {"KEY-1", "KEY-2"})

\* the ticket keys the QA agent comments on: jira_keys[:1]
jira_keys(pr_body) ==
    IF SelectSeq(pr_body.words, LAMBDA w : w \in {"KEY-1", "KEY-2"}) = <<>>
    THEN <<>>
    ELSE <<Head(SelectSeq(pr_body.words,
                          LAMBDA w : w \in {"KEY-1", "KEY-2"}))>>

\* the answers to a POST that is expected to create something
PostAnswers ==
    { [raised |-> FALSE, status_code |-> "201"],
      [raised |-> FALSE, status_code |-> "500"],
      [raised |-> TRUE, status_code |-> "none"] }

\* post_commit_comment: whether a request is made and what it returns
post_commit_comment(settings, commit_sha, answer) ==
    IF ~({"GITHUB_REPOSITORY", "GITHUB_TOKEN"} \subseteq settings)
           \/ commit_sha = ""
    THEN [requested |-> FALSE, result |-> "False"]
    ELSE [requested |-> TRUE,
          result |-> IF ~answer.raised /\ answer.status_code = "201"
                     THEN "True" ELSE "False"]

TestInit ==
    /\ content = <<>>
    /\ html = <<>>
    /\ pc = "idle"
    /\ AppendIdle
    /\ UsageIdle
    /\ CallsIdle
    /\ agent \in {"unit_test_agent", "qa_agent"}
    /\ env \in { e \in SUBSET Uses(agent) :
                   IF agent = "unit_test_agent" THEN ClaudeSettings \subseteq e
                   ELSE Uses(agent) \ {"SLACK_WEBHOOK_URL"} \subseteq e }
    /\ mpc = IF agent = "unit_test_agent" THEN "run_tests" ELSE "get_pr_files"
    /\ enabled = ("SLACK_WEBHOOK_URL" \in env)
    /\ exit_code = <<>>
    /\ effects = <<>>
    /\ sent = <<>>
    /\ \E sha \in IF agent = "unit_test_agent" THEN {"", "sha"} ELSE {""},
          body \in IF agent = "qa_agent" THEN Bodies ELSE {NoLocals.pr_body} :
           locals = [NoLocals EXCEPT !.commit_sha = sha, !.pr_body = body]

\* unit test agent: results = run_tests(test_file)
UnitRunTests ==
    /\ agent = "unit_test_agent"
    /\ exit_code = <<>>
    /\ mpc = "run_tests"
    /\ \E r \in PytestRuns :
           locals' = [locals EXCEPT !.results = unit_run_tests(r)]
    /\ mpc' = "post_commit_comment"
    /\ UNCHANGED <<agent, env, enabled, exit_code, effects, sent, outsideTest>>

\* unit test agent: if commit_sha: github_success = post_commit_comment(...)
UnitComment ==
    /\ agent = "unit_test_agent"
    /\ exit_code = <<>>
    /\ mpc = "post_commit_comment"
    /\ IF locals.commit_sha = ""
       THEN UNCHANGED <<locals, effects>>
       ELSE \E answer \in PostAnswers :
                /\ locals' =
                       [locals EXCEPT !.github_success =
                           post_commit_comment(env, locals.commit_sha,
                                               answer).result]
                /\ effects' =
                       IF post_commit_comment(env, locals.commit_sha,
                                              answer).requested
                       THEN Append(effects, [kind |-> "commit_comment",
                                             arg |-> answer.status_code])
                       ELSE effects
    /\ mpc' = "send_message"
    /\ UNCHANGED <<agent, env, enabled, exit_code, sent, outsideTest>>

\* unit test agent: slack.send_message(...)
UnitNotify ==
    /\ agent = "unit_test_agent"
    /\ exit_code = <<>>
    /\ mpc = "send_message"
    /\ \E answer \in Answers :
           sent' = Append(sent, send_message(enabled, answer))
    /\ mpc' = "summary"
    /\ UNCHANGED <<agent, env, enabled, exit_code, effects, locals,
                   outsideTest>>

\* unit test agent: the summary is printed, which reads github_success (an
\* unbound local raises, and the handler of main exits), then
\* sys.exit(results['exit_code'])
UnitSummary ==
    /\ agent = "unit_test_agent"
    /\ exit_code = <<>>
    /\ mpc = "summary"
    /\ exit_code' = IF locals.github_success = "unbound"
                    THEN <<HandlerExit(agent)>>
                    ELSE <<locals.results.exit_code>>
    /\ UNCHANGED <<agent, env, mpc, enabled, effects, sent, locals,
                   outsideTest>>

\* QA agent: get_pr_files; without a Python file main returns
QAGetFiles ==
    /\ agent = "qa_agent"
    /\ exit_code = <<>>
    /\ mpc = "get_pr_files"
    /\ \E outcome \in {"python", "none", "raises"} :
           /\ mpc' = IF outcome = "python" THEN "generate_response" ELSE mpc
           /\ exit_code' = CASE outcome = "python" -> exit_code
                             [] outcome = "none" -> <<0>>
                             [] outcome = "raises" -> <<HandlerExit(agent)>>
    /\ UNCHANGED <<agent, env, enabled, effects, sent, locals, outsideTest>>

\* QA agent: claude.generate_response(...) and the write of the test file
QAGenerate ==
    /\ agent = "qa_agent"
    /\ exit_code = <<>>
    /\ mpc = "generate_response"
    /\ effects' = Append(effects, [kind |-> "generate", arg |-> ""])
    /\ \E raises \in BOOLEAN :
           /\ mpc' = IF raises THEN mpc ELSE "run_tests"
           /\ exit_code' = IF raises THEN <<HandlerExit(agent)>> ELSE exit_code
    /\ UNCHANGED <<agent, env, enabled, sent, locals, outsideTest>>

\* QA agent: results = run_tests(test_file), then the status is determined
QARunTests ==
    /\ agent = "qa_agent"
    /\ exit_code = <<>>
    /\ mpc = "run_tests"
    /\ \E r \in PytestRuns :
           locals' = [locals EXCEPT !.results = qa_run_tests(r),
                                    !.status_text = status_text(qa_run_tests(r))]
    /\ mpc' = "post_pr_comment"
    /\ UNCHANGED <<agent, env, enabled, exit_code, effects, sent, outsideTest>>

\* QA agent: post_pr_comment(pr_number, github_comment); the status of the
\* answer is not looked at
QAPostComment ==
    /\ agent = "qa_agent"
    /\ exit_code = <<>>
    /\ mpc = "post_pr_comment"
    /\ \E answer \in PostAnswers :
           IF answer.raised
           THEN /\ exit_code' = <<HandlerExit(agent)>>
                /\ UNCHANGED <<mpc, effects>>
           ELSE /\ effects' = Append(effects, [kind |-> "pr_comment",
                                               arg |-> locals.status_text])
                /\ mpc' = "add_comment"
                /\ UNCHANGED exit_code
    /\ UNCHANGED <<agent, env, enabled, sent, locals, outsideTest>>

\* QA agent: the try block around jira.add_comment; re.findall raises on
\* a body that is None, add_comment raises when the request does, and the
\* except clause prints and goes on
QAJira ==
    /\ agent = "qa_agent"
    /\ exit_code = <<>>
    /\ mpc = "add_comment"
    /\ IF locals.pr_body.none
       THEN effects' = Append(effects, [kind |-> "jira_failed", arg |-> ""])
       ELSE IF jira_keys(locals.pr_body) = <<>>
       THEN effects' = effects
       ELSE \E answer \in PostAnswers :
                effects' =
                    effects \o
                    [k \in 1..Len(jira_keys(locals.pr_body)) |->
                        [kind |-> IF ~answer.raised
                                       /\ answer.status_code = "201"
                                  THEN "jira_comment" ELSE "jira_failed",
                         arg |-> jira_keys(locals.pr_body)[k]]]
    /\ mpc' = "notify_tests_complete"
    /\ UNCHANGED <<agent, env, enabled, exit_code, sent, locals, outsideTest>>

\* QA agent: slack.notify_tests_complete(...)
QANotify ==
    /\ agent = "qa_agent"
    /\ exit_code = <<>>
    /\ mpc = "notify_tests_complete"
    /\ effects' =
           Append(effects,
                  [kind |-> "chat",
                   arg |-> notify_tests_complete(
                               locals.results.passed,
                               chat_failures(locals.results))])
    /\ \E answer \in Answers :
           sent' = Append(sent, send_message(enabled, answer))
    /\ mpc' = "summary"
    /\ UNCHANGED <<agent, env, enabled, exit_code, locals, outsideTest>>

\* QA agent: the summary is printed and main returns
QAEnd ==
    /\ agent = "qa_agent"
    /\ exit_code = <<>>
    /\ mpc = "summary"
    /\ exit_code' = <<0>>
    /\ UNCHANGED <<agent, env, mpc, enabled, effects, sent, locals,
                   outsideTest>>

TestNext ==
    \/ UnitRunTests
    \/ UnitComment
    \/ UnitNotify
    \/ UnitSummary
    \/ QAGetFiles
    \/ QAGenerate
    \/ QARunTests
    \/ QAPostComment
    \/ QAJira
    \/ QANotify
    \/ QAEnd

TestSpec == TestInit /\ [][TestNext]_vars

(***************************************************************************)
(* Counting, for the properties below.                                     *)
(***************************************************************************)
CountTok(s, t) == Cardinality({ i \in 1..Len(s) : s[i] = t })

OccursAt(s, pat, i) ==
    /\ i + Len(pat) - 1 <= Len(s)
    /\ \A k \in 1..Len(pat) : s[i + k - 1] = pat[k]

\* the positions where pat occurs, overlapping ones included
Occurrences(s, pat) == Cardinality({ i \in 1..Len(s) : OccursAt(s, pat, i) })

\* the occurrences of pat met by a left-to-right scan without overlap
RECURSIVE ScanFrom(_, _, _)
ScanFrom(s, pat, i) ==
    IF i + Len(pat) - 1 > Len(s) THEN 0
    ELSE IF OccursAt(s, pat, i) THEN 1 + ScanFrom(s, pat, i + Len(pat))
    ELSE ScanFrom(s, pat, i + 1)

Scan(s, pat) == ScanFrom(s, pat, 1)

IsMacro(t) == t = MacroOpen[1] \/ t = MacroClose[1]
IsStrong(t) == t = StrongOpen[1] \/ t = StrongClose[1]
IsHeaderClose(t) == t \in {"</h1>", "</h2>", "</h3>"}
IsHeaderOpen(t) == t \in {"<h1>", "<h2>", "<h3>"}

\* the tags of tags are, in order, open, close, open, close, ...
Alternates(tags, open, close) ==
    \A k \in 1..Len(tags) : tags[k] = (IF k % 2 = 1 THEN open ELSE close)

(***************************************************************************)
(* C1.  When the fetch succeeds, the body append_to_page submits is the    *)
(* fetched storage value, then <hr/>, then convert(additional_content).    *)
(* The code converts the concatenation once more in update_page.           *)
(***************************************************************************)
C1_SubmittedBody ==
    \A i \in 1..Len(requests) :
        LET c == requests[i].caller
        IN  requests[i].data.value
                = page[c].value \o Divider \o Convert(additional[c])

(***************************************************************************)
(* C2.  convert turns the fences of its input alternately into the         *)
(* opening and the closing construct of the code macro: as many macro      *)
(* constructs as fences, the odd ones opening and the even ones closing.   *)
(***************************************************************************)
C2_FencesAlternate ==
    pc = "done" =>
        LET tags == SelectSeq(html, IsMacro)
        IN  /\ Len(tags) = Scan(content, Fence)
            /\ Alternates(tags, MacroOpen[1], MacroClose[1])

(***************************************************************************)
(* C3.  For "# Title\n## Sub" convert yields <h1> before Title and <h2>    *)
(* before Sub with no closing header tag of any level in the output.       *)
(***************************************************************************)
C3_NoCloseBetween ==
    (content = ExTitleSub /\ pc = "done") =>
        /\ CountTok(html, "<h1>") = 1
        /\ CountTok(html, "<h2>") = 1
        /\ \A i \in 1..Len(html) : ~IsHeaderClose(html[i])

\* C3 as amended: the output is <p><h1>Title</h3>\n<h2> Sub</p>: the level-1
\* tag opens before Title, a closing tag of level 3 stands before the
\* newline, the level-2 tag opens before " Sub", and no </h1> or </h2>
\* appears.
C3_TitleSub ==
    (content = ExTitleSub /\ pc = "done") =>
        html = <<"<p>", "<h1>", "T", "i", "t", "l", "e", "</h3>", "\n",
                 "<h2>", " ", "S", "u", "b", "</p>">>

C3_Witness == content = ExTitleSub /\ pc = "done"

(***************************************************************************)
(* C4.  The header step opens a tag wherever a marker appears; </h3> is    *)
(* produced only at a newline followed by "##" (and is followed by the     *)
(* newline and <h2>), </h2> only at a newline followed by "#" (followed by *)
(* the newline and <h1>); </h1> is never produced; a header that no such   *)
(* marker follows stays unclosed.                                          *)
(***************************************************************************)
HeaderTags(in, out) ==
    /\ CountTok(out, "<h3>") = Scan(in, <<"#", "#", "#", " ">>)
    /\ CountTok(out, "<h1>") + CountTok(out, "<h2>") + CountTok(out, "<h3>")
           >= Occurrences(in, <<"#", " ">>)
    /\ CountTok(out, "<h2>") >=
           Cardinality({ i \in 1..Len(in) :
               /\ OccursAt(in, <<"#", "#", " ">>, i)
               /\ (i = 1 \/ in[i - 1] # "#") })
    /\ CountTok(out, "<h1>") >=
           Cardinality({ i \in 1..Len(in) :
               /\ OccursAt(in, <<"#", " ">>, i)
               /\ (i = 1 \/ in[i - 1] # "#") })
    /\ ~Contains(out, <<"#", " ">>)
    /\ CountTok(out, "</h3>") <= Occurrences(in, <<"\n", "#", "#">>)
    /\ CountTok(out, "</h2>") <= Occurrences(in, <<"\n", "#">>)
    /\ CountTok(out, "</h1>") = 0
    /\ \A i \in 1..Len(out) :
           /\ out[i] = "</h3>" => OccursAt(out, H3CloseH2, i)
           /\ out[i] = "</h2>" => OccursAt(out, H2CloseH1, i)

C4_HeaderTags == [][pc = "headers" => HeaderTags(html, html')]_vars

C4_Witness ==
    /\ pc = "bold"
    /\ content = ExHeaders
    /\ html = <<"<h3>", "a", "</h3>", "\n", "<h2>", " ", "b", "</h2>", "\n",
                "<h1>", " ", "c">>

(***************************************************************************)
(* C5.  convert turns the n "**" delimiters of its input, scanned left to  *)
(* right without overlap, alternately into <strong> and </strong>; no "**" *)
(* remains; "**bold**" and "**a**b**" give the outputs of the examples.    *)
(***************************************************************************)
C5_BoldAlternates ==
    pc = "done" =>
        LET tags == SelectSeq(html, IsStrong)
            n == Scan(content, Stars)
        IN  /\ Len(tags) = n
            /\ Alternates(tags, StrongOpen[1], StrongClose[1])
            /\ CountTok(html, StrongOpen[1]) = (n + 1) \div 2
            /\ CountTok(html, StrongClose[1]) = n \div 2
            /\ ~Contains(html, Stars)
            /\ content = ExBold =>
                   html = <<"<p>", "<strong>", "b", "o", "l", "d",
                            "</strong>", "</p>">>
            /\ content = ExBoldOdd =>
                   html = <<"<p>", "<strong>", "a", "</strong>", "b",
                            "<strong>", "</p>">>

C5_Witness ==
    /\ pc = "done"
    /\ Scan(content, Stars) = 3
    /\ html[Len(html) - 1] = StrongOpen[1]

(***************************************************************************)
(* C6.  The list step turns every maximal run of lines whose stripped      *)
(* content starts with "- " into one <ul> line, one <li>text</li> line per *)
(* line of the run and one </ul> line right after the run, also at the end *)
(* of the input; the other lines are kept; the <ul> and </ul> tags         *)
(* alternate, so lists never nest and are balanced.                        *)
(***************************************************************************)
NonBlank(line) == { i \in 1..Len(line) : line[i] \notin Whitespace }

FirstOf(S) == CHOOSE i \in S : \A j \in S : i <= j
LastOf(S) == CHOOSE i \in S : \A j \in S : j <= i

\* the line, stripped, starts with "- "
IsItem(line) ==
    /\ NonBlank(line) # {}
    /\ line[FirstOf(NonBlank(line))] = "-"
    /\ LastOf(NonBlank(line)) > FirstOf(NonBlank(line)) + 1
    /\ line[FirstOf(NonBlank(line)) + 1] = " "

ItemText(line) ==
    SubSeq(line, FirstOf(NonBlank(line)) + 2, LastOf(NonBlank(line)))

\* the output lines that line i of L gives rise to
BlockOf(L, i) ==
    LET item == IsItem(L[i])
        before == i > 1 /\ IsItem(L[i - 1])
    IN  (IF item /\ ~before THEN << <<"<ul>">> >> ELSE <<>>)
        \o (IF ~item /\ before THEN << <<"</ul>">> >> ELSE <<>>)
        \o (IF item THEN << <<"<li>">> \o ItemText(L[i]) \o <<"</li>">> >>
            ELSE << L[i] >>)
        \o (IF item /\ i = Len(L) THEN << <<"</ul>">> >> ELSE <<>>)

RECURSIVE BlocksUpTo(_, _)
BlocksUpTo(L, i) ==
    IF i = 0 THEN <<>> ELSE BlocksUpTo(L, i - 1) \o BlockOf(L, i)

IsUl(t) == t \in {"<ul>", "</ul>"}

ListBlocks(in, out) ==
    /\ SplitLines(out) = BlocksUpTo(SplitLines(in), Len(SplitLines(in)))
    /\ Alternates(SelectSeq(out, IsUl), "<ul>", "</ul>")
    /\ CountTok(out, "<ul>") = CountTok(out, "</ul>")

C6_ListBlocks == [][pc = "lists" => ListBlocks(html, html')]_vars

C6_Witness ==
    /\ pc = "paragraphs"
    /\ content = ExList
    /\ html = <<"<ul>", "\n", "<li>", "x", "</li>", "\n", "<li>", "y",
                "</li>", "\n", "<li>", "z", "</li>", "\n", "</ul>">>

(***************************************************************************)
(* C7.  convert's output begins with <p>, ends with </p> and holds no two  *)
(* consecutive newlines: every blank line left after the list step has     *)
(* become </p><p>.                                                         *)
(***************************************************************************)
ParagraphShape(out) ==
    /\ Len(out) >= 2
    /\ out[1] = "<p>"
    /\ out[Len(out)] = "</p>"
    /\ ~Contains(out, <<"\n", "\n">>)
    /\ CountTok(out, "<p>") = CountTok(out, "</p>")

C7_Paragraphs ==
    /\ [](pc = "done" => ParagraphShape(html))
    /\ [][pc = "paragraphs" =>
              /\ ParagraphShape(html')
              /\ Scan(html', <<"</p>", "<p>">>) = Scan(html, <<"\n", "\n">>)]_vars

C7_Witness ==
    /\ pc = "done"
    /\ Scan(content, <<"\n", "\n">>) = 2
    /\ Scan(html, <<"</p>", "<p>">>) = 2

(***************************************************************************)
(* C8.  convert applies headers, bold markers, lists, paragraphs, fences   *)
(* in this order, each rule on the whole output of the one before: list    *)
(* markup ends up inside the paragraph tags, and a blank line between two  *)
(* fences becomes </p><p> before the fences are replaced.                  *)
(***************************************************************************)
C8_RuleOrder ==
    pc = "done" =>
        /\ html =
             FencesRule(ParagraphsRule(ListsRule(BoldRule(HeadersRule(content)))))
        /\ content = ExListBlank =>
               html = <<"<p>", "<ul>", "\n", "<li>", "a", "</li>", "\n",
                        "</ul>", "</p>", "<p>", "<ul>", "\n", "<li>", "a",
                        "</li>", "\n", "</ul>", "</p>">>
        /\ content = ExFenceBlank =>
               html = <<"<p>", MacroOpen[1], "</p>", "<p>", MacroOpen[1],
                        "</p>">>

C8_Witness ==
    /\ pc = "done"
    /\ content = ExListBlank
    /\ Contains(html, <<"</ul>", "</p>", "<p>", "<ul>">>)

(***************************************************************************)
(* C9.  convert is total: on every input the call reaches its return       *)
(* statement with a sequence of tokens, and every iteration of the bold    *)
(* loop leaves fewer "**" than it found.                                   *)
(***************************************************************************)
C9_Total ==
    /\ <>(pc = "done")
    /\ [][(pc = "bold" /\ pc' = "bold") =>
              Scan(html', Stars) < Scan(html, Stars)]_vars
    /\ [](html \in Seq(STRING))

C9_Witness ==
    /\ pc = "done"
    /\ content = <<"*", "*", "*", "*", "*", "#">>
    /\ html = <<"<p>", "<strong>", "</strong>", "*", "#", "</p>">>

(***************************************************************************)
(* C10.  convert("") returns exactly <p></p>.                              *)
(***************************************************************************)
C10_Empty ==
    (content = ExEmpty /\ pc = "done") => html = <<"<p>", "</p>">>

C10_Witness == content = ExEmpty /\ pc = "done" /\ Len(html) = 2

(***************************************************************************)
(* C11  tokens_used is overwritten, not accumulated: after a successful    *)
(* generate_response the stored count is input_tokens + output_tokens of   *)
(* that call alone, whatever was stored before, and the cost read after    *)
(* several calls is the estimate for the last call alone.                  *)
(***************************************************************************)
Total(u) == u.input_tokens + u.output_tokens

C11_LastCallOnly ==
    /\ uop[2] = "generate" => tokens_used = Total(usage)
    /\ uop = <<"generate", "get_cost">> =>
           /\ tokens_used = Total(usage)
           /\ cost = get_cost(Total(usage))

C11_Witness ==
    /\ calls >= 3
    /\ uop = <<"generate", "get_cost">>
    /\ prev_tokens = 750
    /\ tokens_used = 1000
    /\ cost = 66

(***************************************************************************)
(* C12  For a stored count t >= 0, get_cost returns                        *)
(*   (floor(0.7 * t) * 3.00 + floor(0.3 * t) * 15.00) / 1,000,000          *)
(* rounded to four decimal places, the two floors taken independently of   *)
(* each other: the value returned is a multiple of 1/10000 nearest to that *)
(* quotient (at most half of 1/10000 away from it).                        *)
(***************************************************************************)
\* floor(0.7 * t) * 3 + floor(0.3 * t) * 15, the claimed cost in millionths
ClaimedMillionths(t) == ((7 * t) \div 10) * 3 + ((3 * t) \div 10) * 15

C12_FlooredShares ==
    uop[2] = "get_cost" =>
        100 * cost - ClaimedMillionths(tokens_used) \in -50..50

(***************************************************************************)
(* C13  After reset_tokens the stored count is 0, and a get_cost that      *)
(* follows it returns 0.0, whatever was recorded before.                   *)
(***************************************************************************)
C13_ResetZero ==
    /\ uop[2] = "reset" => tokens_used = 0
    /\ uop = <<"reset", "get_cost">> => tokens_used = 0 /\ cost = 0

C13_Witness ==
    /\ uop = <<"reset", "get_cost">>
    /\ Total(usage) = 1000
    /\ cost = 0

(***************************************************************************)
(* C14  get_cost is a pure read: it can be called at any time (in every    *)
(* state it has a value to return; the count is 0 before any call), it     *)
(* leaves the stored count unchanged, two get_cost calls with no           *)
(* generate_response or reset_tokens between them return the same value,   *)
(* and the stored count is changed only by generate_response and           *)
(* reset_tokens.                                                           *)
(***************************************************************************)
C14_PureRead ==
    /\ [](get_cost(tokens_used) \in Nat)
    /\ [](uop[2] = "init" => tokens_used = 0)
    /\ [][/\ uop'[2] = "get_cost" => tokens_used' = tokens_used
          /\ uop[2] = "get_cost" /\ uop'[2] = "get_cost" => cost' = cost
          /\ tokens_used' # tokens_used =>
                 uop'[2] \in {"generate", "raised", "reset"}]_vars

C14_Witness ==
    /\ uop = <<"get_cost", "get_cost">>
    /\ tokens_used = 1000
    /\ cost = 66

(***************************************************************************)
(* C15  The converter holds no state across calls: whatever calls went     *)
(* before, a call with the same input returns the same output, and a call  *)
(* changes nothing that a later call, or any other part of the helper,     *)
(* can observe.                                                            *)
(***************************************************************************)
C15_Stateless ==
    /\ [](\A i, j \in 1..Len(returned) :
            returned[i].input = returned[j].input =>
                returned[i].output = returned[j].output)
    /\ [](pc = "done" =>
            \A i \in 1..Len(returned) :
                returned[i].input = content => returned[i].output = html)
    /\ [][UNCHANGED <<appendVars, usageVars, agentVars>>]_vars

C15_Witness ==
    /\ Len(returned) >= 2
    /\ returned[1].input = ExList
    /\ returned[2].input = ExBold
    /\ pc = "done"
    /\ content = ExList
    /\ html = returned[1].output

(***************************************************************************)
(* C16  The converter applied to its own output is not a fixed point: for  *)
(* every input x, convert(convert(x)) differs from convert(x), because the *)
(* result is wrapped again (it begins with <p><p>).                        *)
(***************************************************************************)
C16_NotIdempotent ==
    pc = "done" =>
        /\ html = Convert(content)
        /\ Convert(html) # html
        /\ SubSeq(Convert(html), 1, 2) = <<"<p>", "<p>">>

C16_Witness ==
    /\ pc = "done"
    /\ content = ExEmpty
    /\ html = <<"<p>", "</p>">>
    /\ Convert(html) = <<"<p>", "<p>", "</p>", "</p>">>

(***************************************************************************)
(* C17  As claimed: an agent script started while a setting it uses is     *)
(* missing (helper credentials or URLs, the chat webhook URL, the          *)
(* code-host repository or token, the PR number) fails fast: it does not   *)
(* carry on past its start, and it exits with a non-zero status.           *)
(***************************************************************************)
C17_FailFast ==
    (agent \in Agents /\ ~(Uses(agent) \subseteq env)) =>
        /\ mpc \in Startup
        /\ exit_code # <<>> => exit_code # <<0>>

(***************************************************************************)
(* C17, amended: the scripts fail fast on the settings they require, and   *)
(* only on those.  Required are: for the PM standup agent the wiki         *)
(* credentials, the model-service key and the code-host repository and     *)
(* token; for the QA agent the PR number, the tracker credentials, the     *)
(* model-service key and the code-host repository and token; for the unit  *)
(* test agent the model-service key; for the deploy agent nothing.  With a *)
(* required setting missing the script never gets past its start and       *)
(* exits with status 1.  A missing chat webhook URL (and, for the unit     *)
(* test agent, a missing code-host repository or token) does not stop a    *)
(* script: the chat helper is disabled and the script carries on.          *)
(***************************************************************************)
Required(a) ==
    CASE a = "deploy_agent" -> {}
      [] a = "pm_standup_agent" ->
           {"CONFLUENCE_URL", "JIRA_EMAIL", "JIRA_API_TOKEN",
            "CONFLUENCE_SPACE_KEY", "ANTHROPIC_API_KEY",
            "GITHUB_REPOSITORY", "GITHUB_TOKEN"}
      [] a = "qa_agent" ->
           {"PR_NUMBER", "JIRA_URL", "JIRA_EMAIL", "JIRA_API_TOKEN",
            "JIRA_PROJECT_KEY", "ANTHROPIC_API_KEY",
            "GITHUB_REPOSITORY", "GITHUB_TOKEN"}
      [] a = "unit_test_agent" -> {"ANTHROPIC_API_KEY"}

C17_FailFastRequired ==
    /\ [](agent \in Agents /\ ~(Required(agent) \subseteq env) =>
            /\ mpc \in Startup
            /\ exit_code # <<>> => exit_code = <<1>>)
    /\ [](agent \in Agents /\ Required(agent) \subseteq env =>
            ~(mpc \in Startup /\ exit_code # <<>>))
    /\ [](agent \in Agents /\ mpc \notin Startup =>
            enabled = ("SLACK_WEBHOOK_URL" \in env))
    /\ (agent \in Agents /\ ~(Required(agent) \subseteq env))
           ~> (exit_code = <<1>>)

C17_Witness ==
    /\ agent = "pm_standup_agent"
    /\ env = Uses(agent) \ {"SLACK_WEBHOOK_URL", "ANTHROPIC_API_KEY"}
    /\ mpc = "ClaudeHelper"
    /\ enabled = FALSE
    /\ exit_code = <<1>>

(***************************************************************************)
(* C18  send_message never raises.  It returns True exactly when the       *)
(* request to the webhook completed with status 200, and False on any      *)
(* other status and on an exception or timeout of the request; when no     *)
(* webhook URL is configured it returns False without making a request.    *)
(***************************************************************************)
C18_SendMessage ==
    /\ mpc = "ready" => enabled = ("SLACK_WEBHOOK_URL" \in env)
    /\ \A i \in 1..Len(sent) :
           /\ ~sent[i].raises
           /\ sent[i].result =
                  (/\ sent[i].requested
                   /\ ~sent[i].answer.raised
                   /\ sent[i].answer.status_code = "200")
           /\ sent[i].requested = enabled
           /\ ~enabled => ~sent[i].result

C18_Witness ==
    /\ enabled
    /\ Len(sent) >= 3
    /\ sent[1].answer.status_code = "200" /\ sent[1].result
    /\ sent[2].answer.raised /\ ~sent[2].result
    /\ sent[3].answer.status_code = "204" /\ ~sent[3].result

(***************************************************************************)
(* C19  The deploy agent always succeeds: every run of main ends, and ends *)
(* with exit status 0, also when a step or the write of the summary file   *)
(* raises an exception.  The seven emulated steps run in their fixed       *)
(* order, and the chat notification is sent only after all seven steps     *)
(* and the write of the summary file.                                      *)
(***************************************************************************)
IsPrefix(s, t) == Len(s) <= Len(t) /\ SubSeq(t, 1, Len(s)) = s

C19_DeploySucceeds ==
    /\ [](agent = "deploy_agent" /\ exit_code # <<>> => exit_code = <<0>>)
    /\ [](agent = "deploy_agent" =>
            IsPrefix(effects,
                     DeploySteps \o <<"write_summary", "send_message">>))
    /\ [](agent = "deploy_agent" /\ sent # <<>> =>
            IsPrefix(DeploySteps \o <<"write_summary">>, effects))
    /\ (agent = "deploy_agent") ~> (exit_code = <<0>>)

C19_Witness ==
    /\ agent = "deploy_agent"
    /\ mpc = "exit"
    /\ exit_code = <<0>>
    /\ effects = DeploySteps \o <<"write_summary", "send_message">>
    /\ Len(sent) = 1
    /\ sent[1].result

(***************************************************************************)
(* C20  When the page fetch succeeds, append_to_page submits exactly one   *)
(* update for the page, carrying the fetched title and the fetched version *)
(* number plus one; when that update is answered with a status other than  *)
(* 200, append_to_page raises.                                             *)
(***************************************************************************)
UpdatesOf(c) == { i \in 1..Len(requests) : requests[i].caller = c }

C20_OneUpdate ==
    \A c \in Callers :
        /\ Cardinality(UpdatesOf(c)) <= 1
        /\ page[c] # NoPage /\ apc[c] \in {"returned", "raised"} =>
               Cardinality(UpdatesOf(c)) = 1
        /\ \A i \in UpdatesOf(c) :
               /\ page[c] # NoPage
               /\ requests[i].data.title = page[c].title
               /\ requests[i].data.number = page[c].version + 1
               /\ requests[i].status # 200 <=> apc[c] = "raised"
               /\ requests[i].status = 200 <=> apc[c] = "returned"

C20_Witness ==
    /\ Len(requests) = 2
    /\ apc[requests[1].caller] = "returned"
    /\ requests[2].caller # requests[1].caller
    /\ requests[2].status = 409
    /\ requests[2].data.number = page[requests[2].caller].version + 1
    /\ requests[2].data.title = "Standup"
    /\ apc[requests[2].caller] = "raised"

(***************************************************************************)
(* C22  When the page fetch is answered with a status other than 200,      *)
(* append_to_page submits no update and returns without raising; the       *)
(* standup agent reports the standup as added, exactly as it does after a  *)
(* successful append.                                                      *)
(***************************************************************************)
FetchWasRefused(c) == apc[c] \in {"returned", "raised"} /\ page[c] = NoPage

C22_SilentFetchFailure ==
    /\ [](\A c \in Callers :
             FetchWasRefused(c) =>
                 /\ UpdatesOf(c) = {}
                 /\ apc[c] = "returned"
                 /\ ReportsAdded(c))
    /\ [](\A c \in Callers :
             apc[c] = "returned" /\ page[c] # NoPage => ReportsAdded(c))
    /\ [][\A c \in Callers :
             GetFail(c) => requests' = requests /\ store' = store]_vars

\* one call appended, the other was refused the page, both are reported
\* as added and the page holds one update only
C22_Witness ==
    \E c, d \in Callers :
        /\ FetchWasRefused(c)
        /\ additional[c] # <<>>
        /\ ReportsAdded(c)
        /\ page[d] # NoPage
        /\ ReportsAdded(d)
        /\ Len(requests) = 1
        /\ requests[1].caller = d
        /\ store.version = 2

(***************************************************************************)
(* C23  With a wiki that accepts an update exactly when its version number *)
(* is the stored version plus one: interleaved append_to_page calls lose   *)
(* no appended content silently.  The stored page is the page the first    *)
(* accepted call fetched with the content of every accepted call appended  *)
(* in the order of acceptance; of the calls that fetched the same version  *)
(* and ended with the wiki answering by that rule, exactly one is accepted *)
(* and the others raise; a call that returns after a successful fetch is   *)
(* an accepted one.                                                        *)
(***************************************************************************)
Accepted == SelectSeq(requests, LAMBDA r : r.status = 200)

\* value after the calls of the requests rs were applied one after another
RECURSIVE Serial(_, _)
Serial(value, rs) ==
    IF rs = <<>> THEN value
    ELSE Serial(Convert(value \o <<"<hr/>">>
                              \o Convert(additional[Head(rs).caller])),
                Tail(rs))

WasAccepted(c) == \E i \in UpdatesOf(c) : requests[i].status = 200

\* the calls that fetched version v and have ended
Fetched(v) ==
    { c \in Callers : page[c].version = v /\ apc[c] \in {"returned", "raised"} }

C23_NoLostAppend ==
    /\ Accepted # <<>> =>
           /\ store.value = Serial(page[Accepted[1].caller].value, Accepted)
           /\ store.version
                  = page[Accepted[1].caller].version + Len(Accepted)
    /\ \A v \in 1..(NumCallers + 1) :
           /\ Fetched(v) # {}
           /\ \A c \in Fetched(v) :
                  \A i \in UpdatesOf(c) : requests[i].status # 500
           => /\ Cardinality({ c \in Fetched(v) : WasAccepted(c) }) = 1
              /\ \A c \in Fetched(v) : ~WasAccepted(c) => apc[c] = "raised"
    /\ \A c \in Callers :
           apc[c] = "returned" /\ page[c] # NoPage =>
               /\ WasAccepted(c)
               /\ \E k \in 1..Len(Accepted) :
                      /\ Accepted[k].caller = c
                      /\ store.value
                             = Serial(Accepted[k].data.value,
                                      SubSeq(Accepted, k + 1, Len(Accepted)))

\* two calls fetched the same version: one was accepted, the other raised
C23_Witness ==
    /\ Cardinality(Fetched(1)) >= 2
    /\ \E c, d \in Fetched(1) :
           /\ WasAccepted(c)
           /\ apc[c] = "returned"
           /\ apc[d] = "raised"
           /\ additional[c] # <<>>
           /\ additional[d] # <<>>
           /\ \E i \in UpdatesOf(d) : requests[i].status = 409
           /\ store.value = Serial(page[c].value, Accepted)

(***************************************************************************)
(* C24  A generate_response call that fails (the client raises, or the     *)
(* response holds no content to return) raises, and the stored token count *)
(* keeps the value it had before the call.  The code stores the count of   *)
(* the response before it reads the content, so a response without content *)
(* changes the count.                                                      *)
(***************************************************************************)
GenerateFails == GenerateRaise \/ \E u \in Usages : GenerateNoText(u)

C24_FailureKeepsCount ==
    [][GenerateFails => uop'[2] = "raised" /\ tokens_used' = tokens_used]_vars

(***************************************************************************)
(* C21  Once the unit test agent has generated and run tests, the process  *)
(* exits with the exit code of the test run on every path, also when no    *)
(* commit SHA is available.  Without a commit SHA the code never binds     *)
(* github_success, the summary raises on reading it, and the handler exits *)
(* with 1.                                                                 *)
(***************************************************************************)
C21_ExitsWithTestCode ==
    agent = "unit_test_agent" /\ exit_code # <<>> =>
        exit_code = <<locals.results.exit_code>>

(***************************************************************************)
(* C25  The QA agent gives a test run exactly one status: All Tests Passed *)
(* iff total > 0 and passed = total; Some Tests Failed iff the pass rate   *)
(* is at least 80% and below 100%; No Tests Generated iff total = 0; Many  *)
(* Tests Failed otherwise; total = passed + failed + errors, and a timeout *)
(* counts as one error with total 1.                                       *)
(***************************************************************************)
Classified == agent = "qa_agent" /\ locals.status_text # "unbound"

C25_OneStatus ==
    /\ \A r \in PytestRuns :
           /\ qa_run_tests(r).total
                  = qa_run_tests(r).passed + qa_run_tests(r).failed
                        + qa_run_tests(r).errors
           /\ r.timed_out =>
                  /\ qa_run_tests(r).errors = 1
                  /\ qa_run_tests(r).total = 1
    /\ Classified =>
           \E passed \in {locals.results.passed},
              total \in {locals.results.total} :
               /\ locals.status_text \in
                      {"All Tests Passed", "Some Tests Failed",
                       "No Tests Generated", "Many Tests Failed"}
               /\ locals.status_text = "All Tests Passed"
                      <=> total > 0 /\ passed = total
               /\ locals.status_text = "Some Tests Failed"
                      <=> /\ total > 0
                          /\ 100 * passed >= 80 * total
                          /\ passed < total
               /\ locals.status_text = "No Tests Generated" <=> total = 0
               /\ locals.status_text = "Many Tests Failed"
                      <=> total > 0 /\ 100 * passed < 80 * total

\* a run at exactly 80%
C25_Witness ==
    /\ Classified
    /\ locals.results.passed = 4
    /\ locals.results.total = 5
    /\ locals.status_text = "Some Tests Failed"

(***************************************************************************)
(* C26  For every QA test result with total > 0 the status of the chat     *)
(* notification agrees with the status of the PR comment (All Passed with  *)
(* All Tests Passed, Some Failures with Some Tests Failed, Many Failures   *)
(* with Many Tests Failed); for total = 0 the PR comment says No Tests     *)
(* Generated and the chat says Many Failures.                              *)
(***************************************************************************)
Entries(kinds) ==
    SelectSeq(effects, LAMBDA x : x.kind \in kinds)

ChatFor(pr_status) ==
    CASE pr_status = "All Tests Passed" -> "All Passed"
      [] pr_status = "Some Tests Failed" -> "Some Failures"
      [] pr_status = "Many Tests Failed" -> "Many Failures"
      [] OTHER -> "none"

Notified == agent = "qa_agent" /\ Entries({"chat"}) # <<>>

C26_StatusesAgree ==
    Notified =>
        /\ Entries({"pr_comment"}) # <<>>
        /\ IF locals.results.total > 0
           THEN Entries({"chat"})[1].arg
                    = ChatFor(Entries({"pr_comment"})[1].arg)
           ELSE /\ Entries({"pr_comment"})[1].arg = "No Tests Generated"
                /\ Entries({"chat"})[1].arg = "Many Failures"

\* the errors make the difference between 100% and 80%
C26_Witness ==
    /\ Notified
    /\ locals.results.passed = 4
    /\ locals.results.failed = 0
    /\ locals.results.errors = 1
    /\ Entries({"chat"})[1].arg = "Some Failures"
    /\ Entries({"pr_comment"})[1].arg = "Some Tests Failed"

(***************************************************************************)
(* C27  In a QA agent run that reaches the results stage the PR comment is *)
(* posted first, then at most one issue-tracker comment is added (to the   *)
(* first ticket key matched in the PR body, none when no key matches),     *)
(* then the chat notification is sent; a failure while updating the issue  *)
(* tracker neither prevents the chat notification nor changes the exit     *)
(* status; and when the PR changes no Python file the agent returns        *)
(* without calling the text-generation service or posting anything.        *)
(***************************************************************************)
Rank(kind) ==
    CASE kind = "generate" -> 1
      [] kind = "pr_comment" -> 2
      [] kind \in {"jira_comment", "jira_failed"} -> 3
      [] kind = "chat" -> 4

KeysOf(pr_body) ==
    SelectSeq(pr_body.words, LAMBDA w : w \in {"KEY-1", "KEY-2"})

C27_ResultsInOrder ==
    /\ [](agent = "qa_agent" =>
            /\ \A i, j \in 1..Len(effects) :
                   i < j => Rank(effects[i].kind) < Rank(effects[j].kind)
            /\ Entries({"jira_comment", "jira_failed", "chat"}) # <<>> =>
                   Entries({"pr_comment"}) # <<>>
            /\ \A i \in 1..Len(effects) :
                   effects[i].kind = "jira_comment" =>
                       /\ KeysOf(locals.pr_body) # <<>>
                       /\ effects[i].arg = KeysOf(locals.pr_body)[1]
            /\ Entries({"pr_comment"}) # <<>> /\ exit_code # <<>> =>
                   /\ exit_code = <<0>>
                   /\ Entries({"chat"}) # <<>>
                   /\ Len(sent) = 1
            /\ mpc = "get_pr_files" /\ exit_code = <<0>> =>
                   effects = <<>> /\ sent = <<>>)
    /\ [][QAJira => mpc' = "notify_tests_complete" /\ exit_code' = exit_code]_vars

\* the tracker update failed for the first of two keys, the chat
\* notification went out and the run ended with status 0
C27_Witness ==
    /\ agent = "qa_agent"
    /\ exit_code = <<0>>
    /\ Len(effects) = 4
    /\ effects[2].kind = "pr_comment"
    /\ effects[3] = [kind |-> "jira_failed", arg |-> "KEY-2"]
    /\ effects[4].kind = "chat"
    /\ sent[1].requested

(***************************************************************************)
(* C28  For every stored count t >= 0 the two shares get_cost computes     *)
(* satisfy t - 1 <= input_tokens + output_tokens <= t, with equality to t  *)
(* exactly when t is a multiple of 10.  The input share is cut from a      *)
(* float product that can lie just below a whole number, so a multiple of  *)
(* 10 can lose a token as well.                                            *)
(***************************************************************************)
Shares(t) == input_tokens(t) + output_tokens(t)

C28_SharesSum ==
    /\ tokens_used - 1 <= Shares(tokens_used)
    /\ Shares(tokens_used) <= tokens_used
    /\ Shares(tokens_used) = tokens_used <=> tokens_used % 10 = 0

(***************************************************************************)
(* C29  get_cost is never negative and never decreases as the stored count *)
(* grows: the cost of 0 is 0.0, and the cost of a count is at most the     *)
(* cost of the next count (so of every larger one).  A cost of 0.0 does    *)
(* not tell that the count is 0.                                           *)
(***************************************************************************)
C29_CostMonotone ==
    /\ get_cost(0) = 0
    /\ uop[2] = "get_cost" =>
           /\ cost >= 0
           /\ cost = get_cost(tokens_used)
           /\ cost <= get_cost(tokens_used + 1)

\* a count whose cost has grown, above a count that costs 0.0
C29_Witness ==
    /\ uop[2] = "get_cost"
    /\ tokens_used = 1000
    /\ cost = 66
    /\ get_cost(7) = 0
====
